---- MODULE Spec2Model ----
(***************************************************************************)
(* Model of the web backend of the ADK Study Planner                       *)
(* (webapp/backend/routers/chat_router.py and the tables of database.py):  *)
(* the parsing of the run_sse response body into one reply, and the        *)
(* send_message / guest_chat handlers that call the ADK runtime.           *)
(***************************************************************************)
EXTENDS Integers, Sequences, FiniteSets, TLC

\* ------------------------------------------------------------------------
\* Bounds of the model
\* ------------------------------------------------------------------------
\* lines of one upstream response body
MaxLines == 2
\* parts carried by all the events of one body together
MaxFrags == 2
\* requests the server receives
MaxReqs == 2
\* seconds the clock of the database advances
MaxClock == 1

\* ------------------------------------------------------------------------
\* Text: a Python str is a sequence of characters
\* ------------------------------------------------------------------------
\* the separator appended after every text part (chat_router.py:224)
Brk == <<"\n", "\n">>

\* chat_router.py:229, the fixed reply of an empty assembly (one atom: it has
\* no leading or trailing whitespace and no line break)
Fallback == <<"I apologize, but I couldn't generate a response. Please try again.">>

\* the characters str.strip() removes
IsSpace(c) == c \in {" ", "\n", "\t", "\r"}

RECURSIVE lstrip(_)
lstrip(s) == IF s = <<>> THEN s
             ELSE IF IsSpace(Head(s)) THEN lstrip(Tail(s)) ELSE s

RECURSIVE rstrip(_)
rstrip(s) == IF s = <<>> THEN s
             ELSE IF IsSpace(s[Len(s)]) THEN rstrip(SubSeq(s, 1, Len(s) - 1)) ELSE s

\* str.strip() (chat_router.py:231)
strip(s) == rstrip(lstrip(s))

\* ------------------------------------------------------------------------
\* JSON values as json.loads returns them
\* ------------------------------------------------------------------------
JNull == [t |-> "null"]
JAbsent == [t |-> "absent"]
JStr(s) == [t |-> "str", s |-> s]
JNum(n) == [t |-> "num", n |-> n]
JList(l) == [t |-> "list", l |-> l]
JObj(o) == [t |-> "obj", o |-> o]

\* bool(v) of a JSON value
Truthy(v) == CASE v.t = "null" -> FALSE
               [] v.t = "absent" -> FALSE
               [] v.t = "str" -> v.s # <<>>
               [] v.t = "num" -> v.n # 0
               [] v.t = "list" -> v.l # <<>>
               [] v.t = "obj" -> \E k \in DOMAIN v.o : v.o[k].t # "absent"

\* only a dict has .get; on any other value .get raises AttributeError
IsDict(v) == v.t = "obj"

\* dict.get(k): the value, or None when the key is missing
Get(v, k) == IF k \in DOMAIN v.o /\ v.o[k].t # "absent" THEN v.o[k] ELSE JNull

\* ------------------------------------------------------------------------
\* The lines of response.text.split("\n")
\* ------------------------------------------------------------------------
\* a line is its first six characters' test and the rest: pre is "data: " or
\* not, payload is what json.loads is given
Raw(s) == [p |-> "raw", s |-> s]
Json(v) == [p |-> "json", v |-> v]
Line(pre, payload) == [pre |-> pre, payload |-> payload]

\* line.startswith("data: ")
startswith(line) == line.pre = "data: "

\* json.loads(line[6:]): a value, or JSONDecodeError
json_loads(payload) == IF payload.p = "json" THEN [ok |-> TRUE, v |-> payload.v]
                       ELSE [ok |-> FALSE, v |-> JNull]

Part(text) == JObj([text |-> text])
Content(parts) == JObj([parts |-> parts])
Event(content) == JObj([content |-> content])
TextEvent(parts) == Event(Content(JList(parts)))

\* the outcome of a piece of handler code: the exception it raised (or "none")
\* and the text accumulated so far
Ok(text) == [exc |-> "none", text |-> text]
Raise(e) == [exc |-> e, text |-> <<>>]


\* ------------------------------------------------------------------------
\* send_message: parsing of the run_sse response (chat_router.py:215-231)
\* ------------------------------------------------------------------------
RECURSIVE SendParts_NoBreak(_, _)
\* SendParts without the "\n\n" after a text
SendParts_NoBreak(parts, acc) ==
    IF parts = <<>> THEN Ok(acc)
    ELSE LET part == Head(parts) IN
         IF ~IsDict(part) THEN Raise("AttributeError")
         ELSE LET text == Get(part, "text") IN
              IF ~Truthy(text) THEN SendParts_NoBreak(Tail(parts), acc)
              ELSE IF text.t # "str" THEN Raise("TypeError")
              ELSE SendParts_NoBreak(Tail(parts), acc \o text.s)

RECURSIVE SendParts(_, _)
\* for part in event_data["content"]["parts"]: if part.get("text"): ... += ...
SendParts(parts, acc) ==
    IF parts = <<>> THEN Ok(acc)
    ELSE LET part == Head(parts) IN
         IF ~IsDict(part) THEN Raise("AttributeError")
         ELSE LET text == Get(part, "text") IN
              IF ~Truthy(text) THEN SendParts(Tail(parts), acc)
              ELSE IF text.t # "str" THEN Raise("TypeError")
              ELSE SendParts(Tail(parts), acc \o text.s \o Brk)

\* SendEvent reading only the first element of parts
SendEvent_FirstPart(event_data, acc) ==
    IF ~IsDict(event_data) THEN Raise("AttributeError")
    ELSE LET content == Get(event_data, "content") IN
         IF ~Truthy(content) THEN Ok(acc)
         ELSE IF ~IsDict(content) THEN Raise("AttributeError")
         ELSE LET parts == Get(content, "parts") IN
              IF ~Truthy(parts) THEN Ok(acc)
              ELSE IF parts.t = "list" THEN SendParts(<<Head(parts.l)>>, acc)
              ELSE IF parts.t \in {"str", "obj"} THEN Raise("AttributeError")
              ELSE Raise("TypeError")

\* the body of the try block for one parsed event
SendEvent(event_data, acc) ==
    IF ~IsDict(event_data) THEN Raise("AttributeError")
    ELSE LET content == Get(event_data, "content") IN
         IF ~Truthy(content) THEN Ok(acc)
         ELSE IF ~IsDict(content) THEN Raise("AttributeError")
         ELSE LET parts == Get(content, "parts") IN
              IF ~Truthy(parts) THEN Ok(acc)
              ELSE IF parts.t = "list" THEN SendParts(parts.l, acc)
              ELSE IF parts.t \in {"str", "obj"} THEN Raise("AttributeError")
              ELSE Raise("TypeError")

RECURSIVE SendLines(_, _)
\* for line in response.text.split("\n")
SendLines(lines, acc) ==
    IF lines = <<>> THEN Ok(acc)
    ELSE LET line == Head(lines) IN
         IF ~startswith(line) THEN SendLines(Tail(lines), acc)
         ELSE LET j == json_loads(line.payload) IN
              IF ~j.ok THEN SendLines(Tail(lines), acc)
              ELSE LET r == SendEvent(j.v, acc) IN
                   IF r.exc # "none" THEN r ELSE SendLines(Tail(lines), r.text)

\* SendAssemble without the substitution of the fallback
SendAssemble_NoFallback(lines) ==
    LET r == SendLines(lines, <<>>) IN
    IF r.exc # "none" THEN r ELSE Ok(strip(r.text))

\* assistant_response after lines 216-231, or the exception that left them
SendAssemble(lines) ==
    LET r == SendLines(lines, <<>>) IN
    IF r.exc # "none" THEN r
    ELSE IF r.text = <<>> THEN Ok(Fallback)
    ELSE Ok(strip(r.text))

\* ------------------------------------------------------------------------
\* guest_chat: parsing of the run_sse response (chat_router.py:311-327)
\* ------------------------------------------------------------------------
RECURSIVE GuestParts(_, _)
GuestParts(parts, acc) ==
    IF parts = <<>> THEN Ok(acc)
    ELSE LET part == Head(parts) IN
         IF ~IsDict(part) THEN Raise("AttributeError")
         ELSE LET text == Get(part, "text") IN
              IF ~Truthy(text) THEN GuestParts(Tail(parts), acc)
              ELSE IF text.t # "str" THEN Raise("TypeError")
              ELSE GuestParts(Tail(parts), acc \o text.s \o Brk)

GuestEvent(event_data, acc) ==
    IF ~IsDict(event_data) THEN Raise("AttributeError")
    ELSE LET content == Get(event_data, "content") IN
         IF ~Truthy(content) THEN Ok(acc)
         ELSE IF ~IsDict(content) THEN Raise("AttributeError")
         ELSE LET parts == Get(content, "parts") IN
              IF ~Truthy(parts) THEN Ok(acc)
              ELSE IF parts.t = "list" THEN GuestParts(parts.l, acc)
              ELSE IF parts.t \in {"str", "obj"} THEN Raise("AttributeError")
              ELSE Raise("TypeError")


RECURSIVE GuestLines(_, _)
GuestLines(lines, acc) ==
    IF lines = <<>> THEN Ok(acc)
    ELSE LET line == Head(lines) IN
         IF ~startswith(line) THEN GuestLines(Tail(lines), acc)
         ELSE LET j == json_loads(line.payload) IN
              IF ~j.ok THEN GuestLines(Tail(lines), acc)
              ELSE LET r == GuestEvent(j.v, acc) IN
                   IF r.exc # "none" THEN r ELSE GuestLines(Tail(lines), r.text)

\* the end of guest_chat's parsing without the strip() of line 327
GuestAssemble_NoStrip(lines) ==
    LET r == GuestLines(lines, <<>>) IN
    IF r.exc # "none" THEN r
    ELSE IF r.text = <<>> THEN Ok(Fallback)
    ELSE Ok(r.text)

GuestAssemble(lines) ==
    LET r == GuestLines(lines, <<>>) IN
    IF r.exc # "none" THEN r
    ELSE IF r.text = <<>> THEN Ok(Fallback)
    ELSE Ok(strip(r.text))

\* ------------------------------------------------------------------------
\* What the ADK runtime can put on one line of the body
\* ------------------------------------------------------------------------
\* the text of a part: empty, whitespace only, a word, a word after a space
Texts == {<<>>, <<"\n">>, <<"a">>, <<"b">>, <<" ", "a">>}

\* one element of content.parts: with a text, without one, with a text of the
\* wrong type, or not an object at all
PartValues == {Part(JStr(s)) : s \in Texts}
                \cup {Part(JAbsent), Part(JNum(1)), JNull}

\* the parts lists of k elements
PartLists(k) == [1..k -> PartValues]

\* "data: " records that carry no parts list with elements
BareRecords ==
    { Line("data: ", Raw("{not json}")),
      Line("data: ", Json(JNull)),
      Line("data: ", Json(JList(<<>>))),
      Line("data: ", Json(JStr(<<"a">>))),
      Line("data: ", Json(Event(JAbsent))),
      Line("data: ", Json(Event(JStr(<<"a">>)))),
      Line("data: ", Json(Event(Content(JAbsent)))),
      Line("data: ", Json(Event(Content(JStr(<<"a">>))))) }

\* lines that do not start with "data: ": blank lines, other SSE fields, and
\* the single-aggregate form (one JSON document, an object or a list)
PlainLines ==
    { Line("", Raw("")),
      Line("event: ", Raw("message")),
      Line("", Json(TextEvent(<<Part(JStr(<<"a">>))>>))),
      Line("", Json(JList(<<TextEvent(<<Part(JStr(<<"a">>))>>),
                            TextEvent(<<Part(JStr(<<"b">>))>>)>>))) }

\* the "data: " records whose event carries a parts list of k elements
TextRecords(k) == {Line("data: ", Json(TextEvent(pl))) : pl \in PartLists(k)}

\* elements of the parts list of a "data: " event (0 for any other line)
NParts(line) ==
    IF /\ startswith(line)
       /\ line.payload.p = "json"
       /\ IsDict(line.payload.v)
       /\ IsDict(Get(line.payload.v, "content"))
       /\ Get(Get(line.payload.v, "content"), "parts").t = "list"
    THEN Len(Get(Get(line.payload.v, "content"), "parts").l)
    ELSE 0

RECURSIVE TotalParts(_)
TotalParts(lines) == IF lines = <<>> THEN 0
                     ELSE NParts(Head(lines)) + TotalParts(Tail(lines))

\* ------------------------------------------------------------------------
\* The server: tables (database.py), handlers (chat_router.py), ADK runtime
\* ------------------------------------------------------------------------
HTTP_200_OK == 200
HTTP_201_CREATED == 201
HTTP_400_BAD_REQUEST == 400
HTTP_404_NOT_FOUND == 404
HTTP_500_INTERNAL_SERVER_ERROR == 500
HTTP_502_BAD_GATEWAY == 502

Reqs == 1..MaxReqs
\* the people who register: email and username
Identities == {[email |-> "ann@x.org", username |-> "ann"]}
\* the API key a user stores, and the one a guest sends
UserKey(user_id) == "key-user" \o ToString(user_id)
GuestKeys == {"key-guest"}
\* the register requests of one run, and what they ask for: people who may
\* pick an email or a username another has picked
MaxRegs == 2
RegReqs == 1..MaxRegs
UserCreate == [email : {"ann@x.org", "bob@x.org"}, username : {"ann", "bob"}]
\* the clients (browsers) that talk to the server at the same time
Clients == {"client1", "client2"}
\* data.message
Messages == {<<"hello">>}

\* users.encrypted_api_key when no key is stored
NULL == <<>>
\* encrypt_api_key / decrypt_api_key (auth.py:34-41): a Fernet token of the key
encrypt_api_key(api_key) == <<"fernet", api_key>>
decrypt_api_key(encrypted_key) == encrypted_key[2]

\* adk_user_id = f"user_{current_user['id']}" (chat_router.py:182)
adk_user_id(current_user) == "user_" \o ToString(current_user.id)
\* guest_user_id (chat_router.py:276)
guest_user_id == "guest"

\* the response of a handler: status code, detail of an HTTPException, and the
\* fields of ChatResponse / GuestChatResponse
Res(status, detail, response, session_id) ==
    [status |-> status, detail |-> detail, response |-> response, session_id |-> session_id]
NoResult == Res(0, <<>>, <<>>, 0)
HTTPException(status, detail) == Res(status, detail, <<>>, 0)
\* an exception no handler catches: the framework answers 500
Unhandled(exc) == Res(HTTP_500_INTERNAL_SERVER_ERROR, <<"Internal Server Error">>, <<>>, 0)

\* what the ADK runtime can answer to POST .../sessions; id is the identifier
\* of the session it created
CreateResponses(id) ==
    { [kind |-> "status", body |-> "upstream error body"],
      [kind |-> "transport", error |-> "timed out"],
      [kind |-> "ok", payload |-> Json(JList(<<>>))],
      [kind |-> "ok", payload |-> Json(JObj([id |-> JAbsent]))],
      [kind |-> "ok", payload |-> Json(JObj([id |-> JStr(<<id>>)]))] }

\* bodies of a 200 response of run_sse: two text events with a blank line
\* between, an empty body, a record that is no event
SampleBodies ==
    { << Line("data: ", Json(TextEvent(<<Part(JStr(<<"a">>))>>))),
         Line("", Raw("")),
         Line("data: ", Json(TextEvent(<<Part(JStr(<<"b">>))>>))) >>,
      <<>>,
      << Line("data: ", Json(JNull)) >> }

\* what the ADK runtime can answer to POST /run_sse
RunResponses ==
    { [kind |-> "status", body |-> "upstream error body"],
      [kind |-> "transport", error |-> "timed out"] }
    \cup { [kind |-> "ok", lines |-> b] : b \in SampleBodies }

\* send_message, lines 183-196: from the response of the session creation to
\* adk_session_id, or to the exception that ends the request
SendCreateStep_NoCheck(resp) ==
    IF resp.kind = "status"
    THEN [pc |-> "done", adk_session_id |-> JNull,
          result |-> HTTPException(HTTP_502_BAD_GATEWAY, <<"ADK backend error: ", resp.body>>)]
    ELSE IF resp.kind = "transport"
    THEN [pc |-> "done", adk_session_id |-> JNull,
          result |-> HTTPException(HTTP_502_BAD_GATEWAY,
                                   <<"Failed to connect to ADK backend: ", resp.error>>)]
    ELSE LET j == json_loads(resp.payload) IN
         IF ~j.ok
         THEN [pc |-> "done", adk_session_id |-> JNull, result |-> Unhandled("JSONDecodeError")]
         ELSE IF ~IsDict(j.v)
         THEN [pc |-> "done", adk_session_id |-> JNull, result |-> Unhandled("AttributeError")]
         ELSE [pc |-> "run", adk_session_id |-> Get(j.v, "id"), result |-> NoResult]

SendCreateStep(resp) ==
    IF resp.kind = "status"
    THEN [pc |-> "done", adk_session_id |-> JNull,
          result |-> HTTPException(HTTP_502_BAD_GATEWAY, <<"ADK backend error: ", resp.body>>)]
    ELSE IF resp.kind = "transport"
    THEN [pc |-> "done", adk_session_id |-> JNull,
          result |-> HTTPException(HTTP_502_BAD_GATEWAY,
                                   <<"Failed to connect to ADK backend: ", resp.error>>)]
    ELSE LET j == json_loads(resp.payload) IN
         IF ~j.ok
         THEN [pc |-> "done", adk_session_id |-> JNull, result |-> Unhandled("JSONDecodeError")]
         ELSE IF ~IsDict(j.v)
         THEN [pc |-> "done", adk_session_id |-> JNull, result |-> Unhandled("AttributeError")]
         ELSE LET id == Get(j.v, "id") IN
              IF ~Truthy(id)
              THEN [pc |-> "done", adk_session_id |-> JNull,
                    result |-> HTTPException(HTTP_502_BAD_GATEWAY,
                                             <<"Failed to create ADK session">>)]
              ELSE [pc |-> "run", adk_session_id |-> id, result |-> NoResult]

\* send_message, lines 213-242: from the response of run_sse to
\* assistant_response, or to the exception that ends the request
SendRunStep_Swallow(resp) ==
    IF resp.kind \in {"status", "transport"}
    THEN [pc |-> "save_assistant", assistant_response |-> Fallback, result |-> NoResult]
    ELSE LET a == SendAssemble(resp.lines) IN
         IF a.exc # "none"
         THEN [pc |-> "done", assistant_response |-> <<>>, result |-> Unhandled(a.exc)]
         ELSE [pc |-> "save_assistant", assistant_response |-> a.text, result |-> NoResult]

SendRunStep_Retry(resp) ==
    IF resp.kind \in {"status", "transport"}
    THEN [pc |-> "run", assistant_response |-> <<>>, result |-> NoResult]
    ELSE LET a == SendAssemble(resp.lines) IN
         IF a.exc # "none"
         THEN [pc |-> "done", assistant_response |-> <<>>, result |-> Unhandled(a.exc)]
         ELSE [pc |-> "save_assistant", assistant_response |-> a.text, result |-> NoResult]

SendRunStep(resp) ==
    IF resp.kind = "status"
    THEN [pc |-> "done", assistant_response |-> <<>>,
          result |-> HTTPException(HTTP_502_BAD_GATEWAY, <<"ADK backend error: ", resp.body>>)]
    ELSE IF resp.kind = "transport"
    THEN [pc |-> "done", assistant_response |-> <<>>,
          result |-> HTTPException(HTTP_502_BAD_GATEWAY,
                                   <<"Failed to connect to ADK backend: ", resp.error>>)]
    ELSE LET a == SendAssemble(resp.lines) IN
         IF a.exc # "none"
         THEN [pc |-> "done", assistant_response |-> <<>>, result |-> Unhandled(a.exc)]
         ELSE [pc |-> "save_assistant", assistant_response |-> a.text, result |-> NoResult]

\* guest_chat, lines 284-292
GuestCreateStep(resp) ==
    IF resp.kind = "status"
    THEN [pc |-> "done", adk_session_id |-> JNull,
          result |-> HTTPException(HTTP_502_BAD_GATEWAY,
                                   <<"Error communicating with AI: ", resp.body>>)]
    ELSE IF resp.kind = "transport"
    THEN [pc |-> "done", adk_session_id |-> JNull,
          result |-> HTTPException(HTTP_502_BAD_GATEWAY,
                                   <<"Failed to connect to AI service: ", resp.error>>)]
    ELSE LET j == json_loads(resp.payload) IN
         IF ~j.ok
         THEN [pc |-> "done", adk_session_id |-> JNull, result |-> Unhandled("JSONDecodeError")]
         ELSE IF ~IsDict(j.v)
         THEN [pc |-> "done", adk_session_id |-> JNull, result |-> Unhandled("AttributeError")]
         ELSE LET id == Get(j.v, "id") IN
              IF ~Truthy(id)
              THEN [pc |-> "done", adk_session_id |-> JNull,
                    result |-> HTTPException(HTTP_502_BAD_GATEWAY,
                                             <<"Failed to create ADK session">>)]
              ELSE [pc |-> "run", adk_session_id |-> id, result |-> NoResult]

\* guest_chat, lines 309-345
GuestRunStep(resp) ==
    IF resp.kind = "status"
    THEN HTTPException(HTTP_502_BAD_GATEWAY, <<"Error communicating with AI: ", resp.body>>)
    ELSE IF resp.kind = "transport"
    THEN HTTPException(HTTP_502_BAD_GATEWAY, <<"Failed to connect to AI service: ", resp.error>>)
    ELSE LET a == GuestAssemble(resp.lines) IN
         IF a.exc # "none" THEN Unhandled(a.exc)
         ELSE Res(HTTP_200_OK, <<>>, a.text, 0)

\* ------------------------------------------------------------------------
\* The tools of researcher_agent (agents/study_planner/agent.py,
\* study_planner/agent.py, src/tools/arxiv_tool.py)
\* ------------------------------------------------------------------------
\* a query the agent passes to a tool: its characters, and whether UTF-8 can
\* encode them (a str with a lone surrogate cannot be encoded)
Query(text, encodable) == [text |-> text, encodable |-> encodable]
Queries == { Query("quantum physics", TRUE), Query("", TRUE), Query("\\ud800", FALSE) }

\* max_results: the default and what the agent may pass
MaxResultsValues == {1, 3}

\* urllib.parse.quote_plus: the string is encoded as UTF-8, then escaped
quote_plus(string) ==
    IF string.encodable THEN Ok("q=" \o string.text) ELSE Raise("UnicodeEncodeError")

\* list(dict.fromkeys(video_ids)): duplicates removed, first occurrences kept
RECURSIVE fromkeys(_)
fromkeys(seq) ==
    IF seq = <<>> THEN <<>>
    ELSE LET init == fromkeys(SubSeq(seq, 1, Len(seq) - 1))
             last == seq[Len(seq)] IN
         IF \E i \in 1..Len(init) : init[i] = last THEN init ELSE Append(init, last)

\* seq[:n]
Take(seq, n) == SubSeq(seq, 1, IF n < Len(seq) THEN n ELSE Len(seq))

\* lines 72-79: the matches with a new video id, until max_results are kept;
\* the test of the length follows the append
RECURSIVE unique_matches(_, _, _, _)
unique_matches(matches, i, kept, max_results) ==
    IF i > Len(matches) THEN kept
    ELSE IF \E k \in 1..Len(kept) : kept[k].vid = matches[i].vid
    THEN unique_matches(matches, i + 1, kept, max_results)
    ELSE IF Len(kept) + 1 >= max_results THEN Append(kept, matches[i])
    ELSE unique_matches(matches, i + 1, Append(kept, matches[i]), max_results)

\* line 85: title.replace('\\u0026', '&').replace('\\', '')
CleanTitle(title) ==
    IF title = "Q\\u0026A" THEN "Q&A"
    ELSE IF title = "Intro\\" THEN "Intro"
    ELSE title

\* the first line of a result with videos (its emoji left out)
YoutubeHeader == "**Educational Videos Found on YouTube**"

\* what requests.get and the two regular expressions make of the lookup:
\* a transport failure, a non-success status, or a page with the (id, title)
\* pairs video_pattern finds and the ids the fallback pattern finds
Match(vid, title) == [vid |-> vid, title |-> title]
YoutubeLookups ==
    { [kind |-> "transport", error |-> "Read timed out", matches |-> <<>>, video_ids |-> <<>>],
      [kind |-> "status", error |-> "429 Client Error", matches |-> <<>>, video_ids |-> <<>>],
      [kind |-> "ok", error |-> "", matches |-> <<>>, video_ids |-> <<>>],
      [kind |-> "ok", error |-> "", matches |-> <<>>, video_ids |-> <<"v1", "v1", "v2">>],
      [kind |-> "ok", error |-> "",
       matches |-> <<Match("v1", "Q\\u0026A")>>, video_ids |-> <<"v1">>],
      [kind |-> "ok", error |-> "",
       matches |-> <<Match("v1", "Intro\\"), Match("v1", "Intro\\"), Match("v2", "Waves")>>,
       video_ids |-> <<"v1", "v1", "v2">>] }

\* lines 94-95: the handler of search_youtube
search_youtube_except(query, error) ==
    LET manual == quote_plus(query) IN
    IF manual.exc # "none" THEN Raise(manual.exc)
    ELSE Ok(<<"Error searching YouTube: ", error,
              ". You can manually search at: https://www.youtube.com/results?search_query=",
              manual.text>>)

\* search_youtube (agents/study_planner/agent.py:32-95)
search_youtube(query, max_results, lookup) ==
    LET search_query == quote_plus(Query(query.text \o " tutorial educational",
                                         query.encodable)) IN
    IF search_query.exc # "none" THEN search_youtube_except(query, search_query.exc)
    ELSE IF lookup.kind # "ok" THEN search_youtube_except(query, lookup.error)
    ELSE IF lookup.matches = <<>>
    THEN IF lookup.video_ids # <<>>
         THEN LET unique_ids == Take(fromkeys(lookup.video_ids), max_results) IN
              Ok(<<YoutubeHeader>> \o
                 [i \in 1..Len(unique_ids) |->
                     "Video - Link: https://www.youtube.com/watch?v=" \o unique_ids[i]])
         ELSE Ok(<<"No videos found for: ", query.text, ". Try searching on YouTube: ",
                   "https://www.youtube.com/results?search_query=" \o search_query.text>>)
    ELSE LET kept == unique_matches(lookup.matches, 1, <<>>, max_results) IN
         Ok(<<YoutubeHeader>> \o
            [i \in 1..Len(kept) |->
                CleanTitle(kept[i].title) \o " - Link: https://www.youtube.com/watch?v="
                    \o kept[i].vid])

\* the first line of a result with a paper (its emoji left out)
ArxivHeader == "**Paper Found on Arxiv**"

\* what list(client.results(search)) gives: an exception of the arxiv client
\* (connection, HTTP status, feed that does not parse), no result, a paper,
\* a paper whose entry lacks the date
ArxivLookups ==
    { [kind |-> "raise", error |-> "ConnectionError", results |-> <<>>],
      [kind |-> "raise", error |-> "HTTPError", results |-> <<>>],
      [kind |-> "raise", error |-> "UnexpectedEmptyPageError", results |-> <<>>],
      [kind |-> "ok", error |-> "", results |-> <<>>],
      [kind |-> "ok", error |-> "",
       results |-> <<[title |-> "On Waves", published |-> "2020-01-01"]>>],
      [kind |-> "ok", error |-> "",
       results |-> <<[title |-> "On Waves", published |-> "None"]>>] }

\* search_arxiv (src/tools/arxiv_tool.py:8-54; the same text in
\* agents/study_planner/agent.py:98-140 and study_planner/agent.py:29-71)
search_arxiv(topic, lookup) ==
    IF ~topic.encodable THEN Ok(<<"Error searching Arxiv: ", "UnicodeEncodeError">>)
    ELSE IF lookup.kind = "raise" THEN Ok(<<"Error searching Arxiv: ", lookup.error>>)
    ELSE IF lookup.results = <<>> THEN Ok(<<"No papers found for topic: ", topic.text>>)
    ELSE LET paper == lookup.results[1] IN
         IF paper.published = "None"
         THEN Ok(<<"Error searching Arxiv: ",
                   "'NoneType' object has no attribute 'strftime'">>)
         ELSE Ok(<<ArxivHeader, paper.title, paper.published>>)

\* ------------------------------------------------------------------------
\* State
\* ------------------------------------------------------------------------
VARIABLES
    asm_body,        \* lines of a run_sse response body received from the runtime
    asm_send,        \* what send_message's parsing made of asm_body
    asm_guest,       \* what guest_chat's parsing made of asm_body
    users,           \* table users: rows [id, email, username, encrypted_api_key]
    chat_sessions,   \* table chat_sessions: rows [id, user_id, created_at, updated_at]
    chat_messages,   \* table chat_messages in rowid order:
                     \* rows [id, session_id, role, content, created_at, req]
    sqlite_sequence, \* the AUTOINCREMENT counters of the three tables
    now,             \* CURRENT_TIMESTAMP, in seconds
    environ,         \* os.environ["GOOGLE_API_KEY"]
    adk_sessions,    \* the number of sessions the ADK runtime has created
    reqs,            \* the requests: position in the handler and its locals
    listing,         \* the response of the last get_messages request
    foreign_keys,    \* PRAGMA foreign_keys of the connections get_db opens
    regs,            \* the register requests: position and answer of each
    tool_call,       \* the tool invocation under way: tool, arguments, lookup outcome
    tool_result,     \* what the invocation returned or raised
    root,            \* the module whose root_agent the run executes
    pipe_pc,         \* the run of the pipeline: idle, running, done, raised
    stage,           \* the position in sub_agents of the agent that runs
    context,         \* the text entries of the session: [author, text]
    tool_results     \* the results of the tool calls of the agent that runs

asm_vars == <<asm_body, asm_send, asm_guest>>
db_vars == <<users, chat_sessions, chat_messages, sqlite_sequence>>
srv_vars == <<users, chat_sessions, chat_messages, sqlite_sequence, now, environ,
              adk_sessions, reqs>>
\* what the handlers of the server leave alone, and what the parsing alone does
tool_vars == <<tool_call, tool_result>>
pipe_vars == <<root, pipe_pc, stage, context, tool_results>>
rest_of_srv == <<asm_body, asm_send, asm_guest, regs, tool_vars, pipe_vars>>
rest_of_asm == <<users, chat_sessions, chat_messages, sqlite_sequence, now, environ,
                 adk_sessions, reqs, listing, foreign_keys, regs, tool_vars, pipe_vars>>
rest_of_tools == <<asm_body, asm_send, asm_guest, users, chat_sessions, chat_messages,
                   sqlite_sequence, now, environ, adk_sessions, reqs, listing, foreign_keys,
                   regs, pipe_vars>>
rest_of_pipe == <<asm_body, asm_send, asm_guest, users, chat_sessions, chat_messages,
                  sqlite_sequence, now, environ, adk_sessions, reqs, listing, foreign_keys,
                  regs, tool_vars>>
vars == <<asm_body, asm_send, asm_guest, users, chat_sessions, chat_messages,
          sqlite_sequence, now, environ, adk_sessions, reqs, listing, foreign_keys,
          regs, tool_call, tool_result, root, pipe_pc, stage, context, tool_results>>

NotRun == [exc |-> "notrun", text |-> <<>>]

NoUser == [id |-> 0, encrypted_api_key |-> NULL]

\* a request the server has not received yet; db and calls record the SQL
\* statements the request has executed and the calls it has made to the runtime
Idle == [pc |-> "idle", op |-> "none", current_user |-> NoUser, message |-> <<>>,
         session_id |-> 0, api_key |-> "", adk_session_id |-> JNull,
         assistant_response |-> <<>>, db |-> <<>>, calls |-> <<>>, result |-> NoResult]

\* a register request the server has not received yet
NoRegistration == [pc |-> "idle", user_data |-> [email |-> "", username |-> ""],
                   status |-> 0, detail |-> <<>>, sub |-> 0]

\* get_db (database.py:9-16) sets no PRAGMA: foreign keys are enforced only
\* when the SQLite library is built to enforce them by default, and the
\* library's own default is not to
SQLITE_DEFAULT_FOREIGN_KEYS == FALSE

\* no get_messages request has been answered
NoListing == [status |-> 0, rows |-> <<>>]

InitAsm ==
    /\ asm_body = <<>>
    /\ asm_send = NotRun
    /\ asm_guest = NotRun

\* init_db (database.py:19-59) on a new file: three empty tables
InitSrv ==
    /\ users = {}
    /\ chat_sessions = {}
    /\ chat_messages = <<>>
    /\ sqlite_sequence = [users |-> 0, chat_sessions |-> 0, chat_messages |-> 0]
    /\ now = 0
    /\ environ = ""
    /\ adk_sessions = 0
    /\ reqs = [r \in Reqs |-> Idle]
    /\ regs = [g \in RegReqs |-> NoRegistration]
    /\ listing = NoListing

\* no tool has been invoked
NoCall == [tool |-> "none", module |-> "", query |-> Query("", TRUE), max_results |-> 0,
           lookup |-> [kind |-> "none"]]

InitTools ==
    /\ tool_call = NoCall
    /\ tool_result = NotRun

\* no run of the pipeline has begun
InitPipe ==
    /\ root = ""
    /\ pipe_pc = "idle"
    /\ stage = 0
    /\ context = <<>>
    /\ tool_results = <<>>

Init ==
    /\ InitAsm /\ InitSrv /\ InitTools /\ InitPipe
    /\ foreign_keys = SQLITE_DEFAULT_FOREIGN_KEYS

\* ---- the response assembly on its own -----------------------------------
\* the runtime writes one more line of the response body
UpstreamLine ==
    /\ asm_send = NotRun /\ asm_guest = NotRun
    /\ Len(asm_body) < MaxLines
    /\ \E k \in 0..(MaxFrags - TotalParts(asm_body)) :
         \E line \in (IF k = 0 THEN BareRecords \cup PlainLines ELSE {}) \cup TextRecords(k) :
            asm_body' = Append(asm_body, line)
    /\ UNCHANGED <<asm_send, asm_guest>>
    /\ UNCHANGED rest_of_asm

\* send_message parses the body (chat_router.py:215-231)
AsmSend ==
    /\ asm_send = NotRun
    /\ asm_send' = SendAssemble(asm_body)
    /\ UNCHANGED <<asm_body, asm_guest>>
    /\ UNCHANGED rest_of_asm

\* guest_chat parses the body (chat_router.py:311-327)
AsmGuest ==
    /\ asm_guest = NotRun
    /\ asm_guest' = GuestAssemble(asm_body)
    /\ UNCHANGED <<asm_body, asm_send>>
    /\ UNCHANGED rest_of_asm

NextAsm == UpstreamLine \/ AsmSend \/ AsmGuest

SpecAsm == Init /\ [][NextAsm]_vars

\* ---- the server ----------------------------------------------------------

\* an INSERT of a row that refers to the row id of table parent fails with
\* sqlite3.IntegrityError when foreign keys are enforced and parent has no
\* such row
ForeignKeyFails(parent, id) == foreign_keys /\ ~\E row \in parent : row.id = id

\* register (auth_router.py:17-63): a new account, which has no API key
register(user_data) ==
    /\ LET id == sqlite_sequence.users + 1 IN
       /\ ~\E u \in users : u.email = user_data.email
       /\ ~\E u \in users : u.username = user_data.username
       /\ users' = users \cup {[id |-> id, email |-> user_data.email,
                                username |-> user_data.username,
                                encrypted_api_key |-> NULL]}
       /\ sqlite_sequence' = [sqlite_sequence EXCEPT !.users = id]
    /\ UNCHANGED <<chat_sessions, chat_messages, now, environ, adk_sessions, reqs>>
    /\ UNCHANGED <<rest_of_srv, listing, foreign_keys>>

\* update_api_key (user_router.py:17-32) by the holder of user_id's token
update_api_key(user_id, api_key) ==
    /\ \E u \in users : u.id = user_id
    /\ users' = {IF u.id = user_id
                 THEN [u EXCEPT !.encrypted_api_key = encrypt_api_key(api_key)]
                 ELSE u : u \in users}
    /\ UNCHANGED <<chat_sessions, chat_messages, sqlite_sequence, now, environ,
                   adk_sessions, reqs>>
    /\ UNCHANGED <<rest_of_srv, listing, foreign_keys>>

\* delete_api_key (user_router.py:35-47) by the holder of user_id's token
delete_api_key(user_id) ==
    /\ \E u \in users : u.id = user_id
    /\ users' = {IF u.id = user_id THEN [u EXCEPT !.encrypted_api_key = NULL] ELSE u :
                    u \in users}
    /\ UNCHANGED <<chat_sessions, chat_messages, sqlite_sequence, now, environ,
                   adk_sessions, reqs>>
    /\ UNCHANGED <<rest_of_srv, listing, foreign_keys>>

\* the requests the server is handling
InFlight == {r \in Reqs : reqs[r].pc \notin {"idle", "done"}}

\* requests are numbered in the order the server receives them; a client sends
\* its next request when it has the response to the last one
Fresh(r) == /\ reqs[r].pc = "idle"
            /\ \A q \in Reqs : q < r => reqs[q].pc # "idle"
            /\ Cardinality(InFlight) < Cardinality(Clients)

\* get_current_user (auth.py:52-91) for a send_message request with the token
\* of user_id: the user's row as it is now
\* session_id is data.session_id (models.py:69-72); line 149 reads it with
\* `not session_id`, which takes None and 0 alike: 0 stands for both
send_message_auth(r, user_id, session_id, message) ==
    /\ Fresh(r)
    /\ \E u \in users :
         /\ u.id = user_id
         /\ reqs' = [reqs EXCEPT ![r] =
                [Idle EXCEPT !.pc = "check", !.op = "send",
                             !.current_user = [id |-> u.id,
                                               encrypted_api_key |-> u.encrypted_api_key],
                             !.message = message, !.session_id = session_id]]
    /\ UNCHANGED <<users, chat_sessions, chat_messages, sqlite_sequence, now, environ,
                   adk_sessions>>
    /\ UNCHANGED <<rest_of_srv, listing, foreign_keys>>

\* send_message, lines 129-156: the key check, then the session is created or
\* its ownership verified
send_message_check_KeyAfterSession(r) ==
    LET q == reqs[r] IN
    /\ q.pc = "check"
    /\ IF q.current_user.encrypted_api_key = NULL /\ q.session_id # 0
       THEN /\ reqs' = [reqs EXCEPT ![r].pc = "done",
                            ![r].result = HTTPException(HTTP_400_BAD_REQUEST,
                                <<"Please set your Google API key in settings first">>)]
            /\ UNCHANGED <<chat_sessions, sqlite_sequence>>
       ELSE IF q.session_id = 0
       THEN LET id == sqlite_sequence.chat_sessions + 1 IN
            /\ chat_sessions' = chat_sessions \cup
                  {[id |-> id, user_id |-> q.current_user.id,
                    created_at |-> now, updated_at |-> now]}
            /\ sqlite_sequence' = [sqlite_sequence EXCEPT !.chat_sessions = id]
            /\ reqs' = [reqs EXCEPT ![r].session_id = id,
                            ![r].db = Append(q.db, "INSERT chat_sessions"),
                            ![r].pc = IF q.current_user.encrypted_api_key = NULL
                                      THEN "done" ELSE "save_user",
                            ![r].result = IF q.current_user.encrypted_api_key = NULL
                                          THEN HTTPException(HTTP_400_BAD_REQUEST,
                                 <<"Please set your Google API key in settings first">>)
                                          ELSE NoResult]
       ELSE IF ~\E s \in chat_sessions : s.id = q.session_id /\ s.user_id = q.current_user.id
       THEN /\ reqs' = [reqs EXCEPT ![r].pc = "done",
                            ![r].result = HTTPException(HTTP_404_NOT_FOUND,
                                                        <<"Session not found">>)]
            /\ UNCHANGED <<chat_sessions, sqlite_sequence>>
       ELSE /\ reqs' = [reqs EXCEPT ![r].pc = "save_user"]
            /\ UNCHANGED <<chat_sessions, sqlite_sequence>>
    /\ UNCHANGED <<users, chat_messages, now, environ, adk_sessions>>
    /\ UNCHANGED <<rest_of_srv, listing, foreign_keys>>

send_message_check(r) ==
    LET q == reqs[r] IN
    /\ q.pc = "check"
    /\ IF q.current_user.encrypted_api_key = NULL
       THEN /\ reqs' = [reqs EXCEPT ![r].pc = "done",
                            ![r].result = HTTPException(HTTP_400_BAD_REQUEST,
                                <<"Please set your Google API key in settings first">>)]
            /\ UNCHANGED <<chat_sessions, sqlite_sequence>>
       ELSE IF q.session_id = 0 /\ ForeignKeyFails(users, q.current_user.id)
       THEN /\ reqs' = [reqs EXCEPT ![r].pc = "done",
                            ![r].result = Unhandled("IntegrityError")]
            /\ UNCHANGED <<chat_sessions, sqlite_sequence>>
       ELSE IF q.session_id = 0
       THEN LET id == sqlite_sequence.chat_sessions + 1 IN
            /\ chat_sessions' = chat_sessions \cup
                  {[id |-> id, user_id |-> q.current_user.id,
                    created_at |-> now, updated_at |-> now]}
            /\ sqlite_sequence' = [sqlite_sequence EXCEPT !.chat_sessions = id]
            /\ reqs' = [reqs EXCEPT ![r].pc = "save_user", ![r].session_id = id,
                            ![r].db = Append(q.db, "INSERT chat_sessions")]
       ELSE IF ~\E s \in chat_sessions : s.id = q.session_id /\ s.user_id = q.current_user.id
       THEN /\ reqs' = [reqs EXCEPT ![r].pc = "done",
                            ![r].result = HTTPException(HTTP_404_NOT_FOUND,
                                                        <<"Session not found">>)]
            /\ UNCHANGED <<chat_sessions, sqlite_sequence>>
       ELSE /\ reqs' = [reqs EXCEPT ![r].pc = "save_user"]
            /\ UNCHANGED <<chat_sessions, sqlite_sequence>>
    /\ UNCHANGED <<users, chat_messages, now, environ, adk_sessions>>
    /\ UNCHANGED <<rest_of_srv, listing, foreign_keys>>

\* lines 158-176 without the INSERT of the user message
send_message_save_user_NoInsert(r, decrypts) ==
    LET q == reqs[r] IN
    /\ q.pc = "save_user"
    /\ IF decrypts
       THEN /\ environ' = decrypt_api_key(q.current_user.encrypted_api_key)
            /\ reqs' = [reqs EXCEPT ![r].pc = "create",
                            ![r].api_key = decrypt_api_key(q.current_user.encrypted_api_key)]
       ELSE /\ environ' = environ
            /\ reqs' = [reqs EXCEPT ![r].pc = "done",
                            ![r].result = HTTPException(HTTP_500_INTERNAL_SERVER_ERROR,
                                                        <<"Failed to decrypt API key">>)]
    /\ UNCHANGED <<users, chat_sessions, chat_messages, sqlite_sequence, now, adk_sessions>>
    /\ UNCHANGED <<rest_of_srv, listing, foreign_keys>>

\* send_message, lines 158-176: the user message is saved, the key decrypted
\* and put into the process environment
send_message_save_user(r, decrypts) ==
    LET q == reqs[r]
        id == sqlite_sequence.chat_messages + 1 IN
    /\ q.pc = "save_user"
    /\ IF ForeignKeyFails(chat_sessions, q.session_id)
       THEN /\ reqs' = [reqs EXCEPT ![r].pc = "done",
                            ![r].result = Unhandled("IntegrityError")]
            /\ UNCHANGED <<chat_messages, sqlite_sequence, environ>>
       ELSE
            /\ chat_messages' = Append(chat_messages,
                    [id |-> id, session_id |-> q.session_id, role |-> "user",
                     content |-> q.message, created_at |-> now, req |-> r])
            /\ sqlite_sequence' = [sqlite_sequence EXCEPT !.chat_messages = id]
            /\ IF decrypts
               THEN /\ environ' = decrypt_api_key(q.current_user.encrypted_api_key)
                    /\ reqs' = [reqs EXCEPT ![r].pc = "create",
                                    ![r].api_key = decrypt_api_key(q.current_user.encrypted_api_key),
                                    ![r].db = Append(q.db, "INSERT user")]
               ELSE /\ environ' = environ
                    /\ reqs' = [reqs EXCEPT ![r].pc = "done",
                                    ![r].db = Append(q.db, "INSERT user"),
                                    ![r].result = HTTPException(HTTP_500_INTERNAL_SERVER_ERROR,
                                                                <<"Failed to decrypt API key">>)]
    /\ UNCHANGED <<users, chat_sessions, now, adk_sessions>>
    /\ UNCHANGED <<rest_of_srv, listing, foreign_keys>>

\* the identifier the runtime gives the next session it creates
NextAdkId == "adk-session-" \o ToString(adk_sessions + 1)

\* a call to the runtime: the endpoint, the routing fields of its URL or JSON
\* body, and the response
Call(call, app, user, session, resp) ==
    [call |-> call, app |-> app, user |-> user, session |-> session, resp |-> resp]

\* send_message, lines 179-196: the session is created in the runtime
send_message_create(r) ==
    LET q == reqs[r] IN
    /\ q.pc = "create"
    /\ \E resp \in CreateResponses(NextAdkId) :
         LET step == SendCreateStep(resp) IN
         /\ adk_sessions' = adk_sessions + 1
         /\ reqs' = [reqs EXCEPT ![r].pc = step.pc,
                         ![r].calls = Append(q.calls,
                             Call("create", "study_planner", adk_user_id(q.current_user),
                                  JNull, resp)),
                         ![r].adk_session_id = step.adk_session_id,
                         ![r].result = step.result]
    /\ UNCHANGED <<users, chat_sessions, chat_messages, sqlite_sequence, now, environ>>
    /\ UNCHANGED <<rest_of_srv, listing, foreign_keys>>

\* send_message, lines 198-242: the message is sent and the response parsed
send_message_run_Carry(r) ==
    LET q == reqs[r]
        carried == IF chat_messages[Len(chat_messages)].role = "assistant"
                   THEN chat_messages[Len(chat_messages)].content ELSE <<>> IN
    /\ q.pc = "run"
    /\ \E resp \in RunResponses :
         LET step == SendRunStep(resp) IN
         /\ reqs' = [reqs EXCEPT ![r].pc = step.pc,
                         ![r].calls = Append(q.calls,
                             Call("run_sse", "study_planner", adk_user_id(q.current_user),
                                  q.adk_session_id, resp)),
                         ![r].assistant_response =
                             IF step.pc = "save_assistant"
                             THEN carried \o step.assistant_response
                             ELSE step.assistant_response,
                         ![r].result = step.result]
    /\ UNCHANGED <<users, chat_sessions, chat_messages, sqlite_sequence, now, environ, adk_sessions>>
    /\ UNCHANGED <<rest_of_srv, listing, foreign_keys>>

send_message_run(r) ==
    LET q == reqs[r] IN
    /\ q.pc = "run"
    /\ \E resp \in RunResponses :
         LET step == SendRunStep(resp) IN
         /\ reqs' = [reqs EXCEPT ![r].pc = step.pc,
                         ![r].calls = Append(q.calls,
                             Call("run_sse", "study_planner", adk_user_id(q.current_user),
                                  q.adk_session_id, resp)),
                         ![r].assistant_response = step.assistant_response,
                         ![r].result = step.result]
    /\ UNCHANGED <<users, chat_sessions, chat_messages, sqlite_sequence, now, environ, adk_sessions>>
    /\ UNCHANGED <<rest_of_srv, listing, foreign_keys>>

\* send_message, lines 244-257: the reply is saved, the session touched
send_message_save_assistant_NoInsert(r) ==
    LET q == reqs[r] IN
    /\ q.pc = "save_assistant"
    /\ chat_sessions' = {IF s.id = q.session_id THEN [s EXCEPT !.updated_at = now] ELSE s :
                            s \in chat_sessions}
    /\ reqs' = [reqs EXCEPT ![r].pc = "done",
                    ![r].db = q.db \o <<"UPDATE chat_sessions">>,
                    ![r].result = Res(HTTP_200_OK, <<>>, q.assistant_response, q.session_id)]
    /\ UNCHANGED <<users, chat_messages, sqlite_sequence, now, environ, adk_sessions>>
    /\ UNCHANGED <<rest_of_srv, listing, foreign_keys>>

send_message_save_assistant(r) ==
    LET q == reqs[r]
        id == sqlite_sequence.chat_messages + 1 IN
    /\ q.pc = "save_assistant"
    /\ IF ForeignKeyFails(chat_sessions, q.session_id)
       THEN /\ reqs' = [reqs EXCEPT ![r].pc = "done",
                            ![r].result = Unhandled("IntegrityError")]
            /\ UNCHANGED <<chat_messages, sqlite_sequence, chat_sessions>>
       ELSE
            /\ chat_messages' = Append(chat_messages,
                    [id |-> id, session_id |-> q.session_id, role |-> "assistant",
                     content |-> q.assistant_response, created_at |-> now, req |-> r])
            /\ sqlite_sequence' = [sqlite_sequence EXCEPT !.chat_messages = id]
            /\ chat_sessions' = {IF s.id = q.session_id THEN [s EXCEPT !.updated_at = now] ELSE s :
                                    s \in chat_sessions}
            /\ reqs' = [reqs EXCEPT ![r].pc = "done",
                            ![r].db = q.db \o <<"INSERT assistant", "UPDATE chat_sessions">>,
                            ![r].result = Res(HTTP_200_OK, <<>>, q.assistant_response, q.session_id)]
    /\ UNCHANGED <<users, now, environ, adk_sessions>>
    /\ UNCHANGED <<rest_of_srv, listing, foreign_keys>>

\* guest_chat, lines 267-271: the key of the request is put into the process
\* environment
guest_chat_begin(r, api_key, message) ==
    /\ Fresh(r)
    /\ environ' = api_key
    /\ reqs' = [reqs EXCEPT ![r] = [Idle EXCEPT !.pc = "create", !.op = "guest",
                                                !.api_key = api_key, !.message = message]]
    /\ UNCHANGED <<users, chat_sessions, chat_messages, sqlite_sequence, now, adk_sessions>>
    /\ UNCHANGED <<rest_of_srv, listing, foreign_keys>>

\* guest_chat, lines 273-292
guest_chat_create(r) ==
    LET q == reqs[r] IN
    /\ q.pc = "create"
    /\ \E resp \in CreateResponses(NextAdkId) :
         LET step == GuestCreateStep(resp) IN
         /\ adk_sessions' = adk_sessions + 1
         /\ reqs' = [reqs EXCEPT ![r].pc = step.pc,
                         ![r].calls = Append(q.calls,
                             Call("create", "study_planner", guest_user_id, JNull, resp)),
                         ![r].adk_session_id = step.adk_session_id,
                         ![r].result = step.result]
    /\ UNCHANGED <<users, chat_sessions, chat_messages, sqlite_sequence, now, environ>>
    /\ UNCHANGED <<rest_of_srv, listing, foreign_keys>>

\* guest_chat, lines 294-345
guest_chat_run(r) ==
    LET q == reqs[r] IN
    /\ q.pc = "run"
    /\ \E resp \in RunResponses :
         /\ reqs' = [reqs EXCEPT ![r].pc = "done",
                         ![r].calls = Append(q.calls,
                             Call("run_sse", "study_planner", guest_user_id,
                                  q.adk_session_id, resp)),
                         ![r].assistant_response = GuestRunStep(resp).response,
                         ![r].result = GuestRunStep(resp)]
    /\ UNCHANGED <<users, chat_sessions, chat_messages, sqlite_sequence, now, environ, adk_sessions>>
    /\ UNCHANGED <<rest_of_srv, listing, foreign_keys>>

SendCreate == \E r \in Reqs : reqs[r].op = "send" /\ send_message_create(r)
SendRun == \E r \in Reqs : reqs[r].op = "send" /\ send_message_run(r)
GuestCreate == \E r \in Reqs : reqs[r].op = "guest" /\ guest_chat_create(r)
GuestRun == \E r \in Reqs : reqs[r].op = "guest" /\ guest_chat_run(r)

Next ==
    \/ \E user_data \in Identities : register(user_data)
    \/ \E u \in users : update_api_key(u.id, UserKey(u.id))
    \/ \E r \in Reqs, u \in users, m \in Messages :
          \E sid \in 0..(sqlite_sequence.chat_sessions + 1) :
             send_message_auth(r, u.id, sid, m)
    \/ \E r \in Reqs : send_message_check(r)
    \/ \E r \in Reqs, d \in BOOLEAN : send_message_save_user(r, d)
    \/ SendCreate
    \/ SendRun
    \/ \E r \in Reqs : send_message_save_assistant(r)
    \/ \E r \in Reqs, k \in GuestKeys, m \in Messages : guest_chat_begin(r, k, m)
    \/ GuestCreate
    \/ GuestRun

Spec == Init /\ [][Next]_vars

\* the requests of the account holders alone, with the key set and removed
NextKeys ==
    \/ \E user_data \in Identities : register(user_data)
    \/ \E u \in users : update_api_key(u.id, UserKey(u.id))
    \/ \E u \in users : delete_api_key(u.id)
    \/ \E r \in Reqs, u \in users, m \in Messages :
          \E sid \in 0..(sqlite_sequence.chat_sessions + 1) :
             send_message_auth(r, u.id, sid, m)
    \/ \E r \in Reqs : send_message_check(r)
    \/ \E r \in Reqs, d \in BOOLEAN : send_message_save_user(r, d)
    \/ SendCreate
    \/ SendRun
    \/ \E r \in Reqs : send_message_save_assistant(r)

SpecKeys == Init /\ [][NextKeys]_vars

\* ------------------------------------------------------------------------
\* The chat history read back (get_messages), with the clock of the database
\* ------------------------------------------------------------------------
\* CURRENT_TIMESTAMP has a resolution of one second: the clock moves on
Tick ==
    /\ now < MaxClock
    /\ now' = now + 1
    /\ UNCHANGED <<users, chat_sessions, chat_messages, sqlite_sequence, environ,
                   adk_sessions, reqs, listing>>
    /\ UNCHANGED <<rest_of_srv, foreign_keys>>

\* the results SELECT ... ORDER BY created_at ASC can give for the rows of
\* table at the positions in picked: every arrangement in which created_at
\* does not decrease; SQL leaves the order of rows with equal created_at open
RECURSIVE OrderByCreatedAt(_, _)
OrderByCreatedAt(table, picked) ==
    IF picked = {} THEN {<<>>}
    ELSE UNION { { <<table[m]>> \o rest : rest \in OrderByCreatedAt(table, picked \ {m}) } :
                 m \in {x \in picked :
                          \A y \in picked : table[x].created_at <= table[y].created_at} }

\* a row as get_messages returns it
MessageOut(row) ==
    [id |-> row.id, role |-> row.role, content |-> row.content,
     created_at |-> row.created_at]

\* get_messages (chat_router.py:86-118) by the holder of user_id's token
get_messages(user_id, session_id) ==
    /\ \E u \in users : u.id = user_id
    /\ IF ~\E c \in chat_sessions : c.id = session_id /\ c.user_id = user_id
       THEN listing' = [status |-> HTTP_404_NOT_FOUND, rows |-> <<>>]
       ELSE \E rows \in OrderByCreatedAt(chat_messages,
                    {i \in 1..Len(chat_messages) : chat_messages[i].session_id = session_id}) :
               listing' = [status |-> HTTP_200_OK,
                           rows |-> [i \in 1..Len(rows) |-> MessageOut(rows[i])]]
    /\ UNCHANGED <<users, chat_sessions, chat_messages, sqlite_sequence, now, environ,
                   adk_sessions, reqs>>
    /\ UNCHANGED <<rest_of_srv, foreign_keys>>

\* the sends are serialized: a send is received when no other is under way
NextSerial ==
    \/ \E user_data \in Identities : register(user_data)
    \/ \E u \in users : update_api_key(u.id, UserKey(u.id))
    \/ Tick
    \/ \E r \in Reqs, u \in users, m \in Messages :
          \E sid \in 0..(sqlite_sequence.chat_sessions + 1) :
             InFlight = {} /\ send_message_auth(r, u.id, sid, m)
    \/ \E r \in Reqs : send_message_check(r)
    \/ \E r \in Reqs, d \in BOOLEAN : send_message_save_user(r, d)
    \/ SendCreate
    \/ SendRun
    \/ \E r \in Reqs : send_message_save_assistant(r)
    \/ \E u \in users : \E sid \in 1..(sqlite_sequence.chat_sessions + 1) :
          get_messages(u.id, sid)

SpecSerial == Init /\ [][NextSerial]_vars

\* the account holders send one message after the other; nothing else runs
NextTurns ==
    \/ \E user_data \in Identities : register(user_data)
    \/ \E u \in users : update_api_key(u.id, UserKey(u.id))
    \/ \E r \in Reqs, u \in users, m \in Messages :
          \E sid \in 0..(sqlite_sequence.chat_sessions + 1) :
             InFlight = {} /\ send_message_auth(r, u.id, sid, m)
    \/ \E r \in Reqs : send_message_check(r)
    \/ \E r \in Reqs, d \in BOOLEAN : send_message_save_user(r, d)
    \/ SendCreate
    \/ SendRun
    \/ \E r \in Reqs : send_message_save_assistant(r)

SpecTurns == Init /\ [][NextTurns]_vars

\* ---- register, statement by statement ----------------------------------
\* POST /auth/register with user_data is received (auth_router.py:17-18)
register_begin(g, user_data) ==
    /\ regs[g].pc = "idle"
    /\ \A h \in RegReqs : h < g => regs[h].pc # "idle"
    /\ regs' = [regs EXCEPT ![g].pc = "check_email", ![g].user_data = user_data]
    /\ UNCHANGED <<db_vars, now, environ, adk_sessions, reqs, listing, foreign_keys>>
    /\ UNCHANGED <<asm_vars, tool_vars, pipe_vars>>

\* lines 21-28: SELECT id FROM users WHERE email = ?
register_check_email(g) ==
    /\ regs[g].pc = "check_email"
    /\ regs' = IF \E u \in users : u.email = regs[g].user_data.email
               THEN [regs EXCEPT ![g].pc = "done", ![g].status = HTTP_400_BAD_REQUEST,
                                 ![g].detail = <<"Email already registered">>]
               ELSE [regs EXCEPT ![g].pc = "check_username"]
    /\ UNCHANGED <<db_vars, now, environ, adk_sessions, reqs, listing, foreign_keys>>
    /\ UNCHANGED <<asm_vars, tool_vars, pipe_vars>>

\* lines 31-38: SELECT id FROM users WHERE username = ?
register_check_username(g) ==
    /\ regs[g].pc = "check_username"
    /\ regs' = IF \E u \in users : u.username = regs[g].user_data.username
               THEN [regs EXCEPT ![g].pc = "done", ![g].status = HTTP_400_BAD_REQUEST,
                                 ![g].detail = <<"Username already taken">>]
               ELSE [regs EXCEPT ![g].pc = "insert"]
    /\ UNCHANGED <<db_vars, now, environ, adk_sessions, reqs, listing, foreign_keys>>
    /\ UNCHANGED <<asm_vars, tool_vars, pipe_vars>>

\* the INSERT of lines 42-48 on a table without the UNIQUE constraints
register_insert_NoConstraint(g) ==
    LET id == sqlite_sequence.users + 1
        user_data == regs[g].user_data IN
    /\ regs[g].pc = "insert"
    /\ users' = users \cup {[id |-> id, email |-> user_data.email,
                             username |-> user_data.username,
                             encrypted_api_key |-> NULL]}
    /\ sqlite_sequence' = [sqlite_sequence EXCEPT !.users = id]
    /\ regs' = [regs EXCEPT ![g].pc = "done", ![g].status = HTTP_201_CREATED,
                            ![g].sub = id]
    /\ UNCHANGED <<chat_sessions, chat_messages, now, environ, adk_sessions, reqs,
                   listing, foreign_keys>>
    /\ UNCHANGED <<asm_vars, tool_vars, pipe_vars>>

\* lines 41-62: INSERT INTO users, commit, and the token for the new id; email
\* and username are UNIQUE (database.py:26-27), and the sqlite3.IntegrityError
\* of an INSERT that breaks the constraint is caught by no handler
register_insert(g) ==
    LET id == sqlite_sequence.users + 1
        user_data == regs[g].user_data IN
    /\ regs[g].pc = "insert"
    /\ IF \E u \in users : u.email = user_data.email \/ u.username = user_data.username
       THEN /\ regs' = [regs EXCEPT ![g].pc = "done",
                            ![g].status = HTTP_500_INTERNAL_SERVER_ERROR,
                            ![g].detail = <<"Internal Server Error">>]
            /\ UNCHANGED <<users, sqlite_sequence>>
       ELSE /\ users' = users \cup {[id |-> id, email |-> user_data.email,
                                     username |-> user_data.username,
                                     encrypted_api_key |-> NULL]}
            /\ sqlite_sequence' = [sqlite_sequence EXCEPT !.users = id]
            /\ regs' = [regs EXCEPT ![g].pc = "done", ![g].status = HTTP_201_CREATED,
                                    ![g].sub = id]
    /\ UNCHANGED <<chat_sessions, chat_messages, now, environ, adk_sessions, reqs,
                   listing, foreign_keys>>
    /\ UNCHANGED <<asm_vars, tool_vars, pipe_vars>>

\* register requests arrive while others are between their statements
NextReg ==
    \/ \E g \in RegReqs, user_data \in UserCreate : register_begin(g, user_data)
    \/ \E g \in RegReqs : register_check_email(g)
    \/ \E g \in RegReqs : register_check_username(g)
    \/ \E g \in RegReqs : register_insert(g)

SpecReg == Init /\ [][NextReg]_vars

\* ---- the chat store: sessions and accounts deleted ---------------------
\* the accounts ever registered
MaxUsers == 2
\* the people who register, when two accounts are needed
Accounts == Identities \cup {[email |-> "bob@x.org", username |-> "bob"]}

\* the rows of chat_messages that ON DELETE CASCADE (database.py:55) removes
\* together with the chat_sessions rows whose ids are in gone
Cascade(gone) ==
    IF foreign_keys
    THEN SelectSeq(chat_messages, LAMBDA row : row.session_id \notin gone)
    ELSE chat_messages

\* delete_session with the SELECT of lines 73-76 on the id alone
delete_session_AnyOwner(user_id, session_id) ==
    /\ \E u \in users : u.id = user_id
    /\ IF ~\E c \in chat_sessions : c.id = session_id
       THEN /\ listing' = [status |-> HTTP_404_NOT_FOUND, rows |-> <<>>]
            /\ UNCHANGED <<chat_sessions, chat_messages>>
       ELSE /\ chat_sessions' = {c \in chat_sessions : c.id # session_id}
            /\ chat_messages' = Cascade({session_id})
            /\ listing' = [status |-> HTTP_200_OK, rows |-> <<>>]
    /\ UNCHANGED <<users, sqlite_sequence, now, environ, adk_sessions, reqs>>
    /\ UNCHANGED <<rest_of_srv, foreign_keys>>

\* delete_session (chat_router.py:65-83) by the holder of user_id's token
delete_session(user_id, session_id) ==
    /\ \E u \in users : u.id = user_id
    /\ IF ~\E c \in chat_sessions : c.id = session_id /\ c.user_id = user_id
       THEN /\ listing' = [status |-> HTTP_404_NOT_FOUND, rows |-> <<>>]
            /\ UNCHANGED <<chat_sessions, chat_messages>>
       ELSE /\ chat_sessions' = {c \in chat_sessions : c.id # session_id}
            /\ chat_messages' = Cascade({session_id})
            /\ listing' = [status |-> HTTP_200_OK, rows |-> <<>>]
    /\ UNCHANGED <<users, sqlite_sequence, now, environ, adk_sessions, reqs>>
    /\ UNCHANGED <<rest_of_srv, foreign_keys>>

\* delete_account (user_router.py:81-90) by the holder of user_id's token: one
\* DELETE FROM users; the rows of the other tables go only by the cascade of
\* their foreign keys (database.py:43, 55)
delete_account(user_id) ==
    LET mine == {c \in chat_sessions : c.user_id = user_id} IN
    /\ \E u \in users : u.id = user_id
    /\ users' = {u \in users : u.id # user_id}
    /\ chat_sessions' = IF foreign_keys THEN chat_sessions \ mine ELSE chat_sessions
    /\ chat_messages' = Cascade({c.id : c \in mine})
    /\ UNCHANGED <<sqlite_sequence, now, environ, adk_sessions, reqs, listing>>
    /\ UNCHANGED <<rest_of_srv, foreign_keys>>

\* the database file is opened by an SQLite library of either build
InitStore ==
    /\ InitAsm /\ InitSrv /\ InitTools /\ InitPipe
    /\ foreign_keys \in BOOLEAN

\* an account sends and deletes its sessions and itself at the same time
NextStore ==
    \/ \E user_data \in Identities : sqlite_sequence.users < MaxUsers /\ register(user_data)
    \/ \E u \in users : update_api_key(u.id, UserKey(u.id))
    \/ \E r \in Reqs, u \in users, m \in Messages :
          \E sid \in 0..(sqlite_sequence.chat_sessions + 1) :
             send_message_auth(r, u.id, sid, m)
    \/ \E r \in Reqs : send_message_check(r)
    \/ \E r \in Reqs, d \in BOOLEAN : send_message_save_user(r, d)
    \/ SendCreate
    \/ SendRun
    \/ \E r \in Reqs : send_message_save_assistant(r)
    \/ \E u \in users : \E sid \in 0..(sqlite_sequence.chat_sessions + 1) :
          delete_session(u.id, sid)
    \/ \E u \in users : delete_account(u.id)

SpecStore == InitStore /\ [][NextStore]_vars

\* two accounts send, one request after the other, and read and delete
\* sessions meanwhile
NextOwner ==
    \/ \E user_data \in Accounts : register(user_data)
    \/ \E u \in users : update_api_key(u.id, UserKey(u.id))
    \/ \E r \in Reqs, u \in users, m \in Messages :
          \E sid \in 0..(sqlite_sequence.chat_sessions + 1) :
             InFlight = {} /\ send_message_auth(r, u.id, sid, m)
    \/ \E r \in Reqs : send_message_check(r)
    \/ \E r \in Reqs, d \in BOOLEAN : send_message_save_user(r, d)
    \/ SendCreate
    \/ SendRun
    \/ \E r \in Reqs : send_message_save_assistant(r)
    \/ \E u \in users : \E sid \in 0..(sqlite_sequence.chat_sessions + 1) :
          get_messages(u.id, sid)
    \/ \E u \in users : \E sid \in 0..(sqlite_sequence.chat_sessions + 1) :
          delete_session(u.id, sid)

SpecOwner == Init /\ [][NextOwner]_vars

\* ------------------------------------------------------------------------
\* The tools invoked on their own
\* ------------------------------------------------------------------------
\* the modules that define search_arxiv
ArxivModules == {"src/tools/arxiv_tool.py", "agents/study_planner/agent.py",
                 "study_planner/agent.py"}

\* the agent calls search_youtube; the lookup will have this outcome
call_search_youtube(query, max_results, lookup) ==
    /\ tool_call = NoCall \/ tool_result # NotRun
    /\ tool_call' = [tool |-> "search_youtube", module |-> "agents/study_planner/agent.py",
                     query |-> query, max_results |-> max_results, lookup |-> lookup]
    /\ tool_result' = NotRun
    /\ UNCHANGED rest_of_tools

\* the agent calls search_arxiv of one of the modules
call_search_arxiv(module, topic, lookup) ==
    /\ tool_call = NoCall \/ tool_result # NotRun
    /\ tool_call' = [tool |-> "search_arxiv", module |-> module, query |-> topic,
                     max_results |-> 1, lookup |-> lookup]
    /\ tool_result' = NotRun
    /\ UNCHANGED rest_of_tools

\* the invocation ends: the tool returns a string or raises
tool_return ==
    /\ tool_call # NoCall /\ tool_result = NotRun
    /\ tool_result' = IF tool_call.tool = "search_youtube"
                      THEN search_youtube(tool_call.query, tool_call.max_results,
                                          tool_call.lookup)
                      ELSE search_arxiv(tool_call.query, tool_call.lookup)
    /\ UNCHANGED tool_call
    /\ UNCHANGED rest_of_tools

NextTools ==
    \/ \E q \in Queries, n \in MaxResultsValues, l \in YoutubeLookups :
          call_search_youtube(q, n, l)
    \/ \E m \in ArxivModules, q \in Queries, l \in ArxivLookups : call_search_arxiv(m, q, l)
    \/ tool_return

SpecTools == Init /\ [][NextTools]_vars

\* ------------------------------------------------------------------------
\* The pipeline: root_agent, a SequentialAgent, run by a Runner
\* ------------------------------------------------------------------------
\* the modules that define a root_agent
Roots == {"src/main.py", "agents/study_planner/agent.py", "study_planner/agent.py"}

sub_agents_ResearchFirst(module) ==
    IF module = "study_planner/agent.py"
    THEN <<"researcher_agent", "planner_agent", "academic_agent">>
    ELSE <<"planner_agent", "researcher_agent", "academic_agent">>

\* sub_agents of root_agent (src/main.py:36, agents/study_planner/agent.py:236,
\* study_planner/agent.py:166)
sub_agents(module) ==
    CASE module = "src/main.py" ->
            <<"planner_agent", "researcher_agent", "academic_agent">>
      [] module = "agents/study_planner/agent.py" ->
            <<"planner_agent", "researcher_agent", "academic_agent">>
      [] module = "study_planner/agent.py" ->
            <<"planner_agent", "researcher_agent", "academic_agent">>

\* tools of an agent: only researcher_agent has tools (google_search is a
\* tool of the model's service and has no code here)
tools(module, agent) ==
    IF agent # "researcher_agent" THEN {}
    ELSE IF module = "agents/study_planner/agent.py"
    THEN {"search_youtube", "search_arxiv"}
    ELSE {"google_search", "search_arxiv"}

\* tool calls one agent makes in one run
MaxToolCalls == 1

\* what the generation of an agent gives: a text, or an exception of the
\* model's client (no key, quota, network)
Generations == { Ok(<<"some text">>), Raise("ClientError") }

\* the agent that runs
agent == sub_agents(root)[stage]

\* run_study_planner, lines 51-74: a session is created and the run begins
\* with the user's message; the first agent of sub_agents runs
run_async(module, query) ==
    /\ pipe_pc = "idle"
    /\ root' = module
    /\ pipe_pc' = "running"
    /\ stage' = 1
    /\ context' = <<[author |-> "user", text |-> <<query.text>>]>>
    /\ tool_results' = <<>>
    /\ UNCHANGED rest_of_pipe

\* the result of calling a tool of the agent
ToolOutcomes(tool, query) ==
    IF tool = "search_youtube"
    THEN {search_youtube(query, 3, l) : l \in YoutubeLookups}
    ELSE IF tool = "search_arxiv"
    THEN {search_arxiv(query, l) : l \in ArxivLookups}
    ELSE {Ok(<<"search results">>)}

\* the agent that runs calls one of its tools; what the tool raises ends the run
agent_tool_call(tool, query) ==
    /\ pipe_pc = "running"
    /\ tool \in tools(root, agent)
    /\ Len(tool_results) < MaxToolCalls
    /\ \E result \in ToolOutcomes(tool, query) :
          IF result.exc # "none"
          THEN pipe_pc' = "raised" /\ UNCHANGED tool_results
          ELSE pipe_pc' = pipe_pc /\ tool_results' = Append(tool_results, result.text)
    /\ UNCHANGED <<root, stage, context>>
    /\ UNCHANGED rest_of_pipe

\* the agent that runs generates its text, which is appended to the session,
\* and the next agent of sub_agents runs; an exception of the generation
\* leaves run_async and run_study_planner (no handler, src/main.py:70-81)
agent_generate(generation) ==
    /\ pipe_pc = "running"
    /\ IF generation.exc # "none"
       THEN pipe_pc' = "raised" /\ UNCHANGED <<stage, context, tool_results>>
       ELSE /\ context' = Append(context, [author |-> agent, text |-> generation.text])
            /\ tool_results' = <<>>
            /\ IF stage = Len(sub_agents(root))
               THEN pipe_pc' = "done" /\ UNCHANGED stage
               ELSE pipe_pc' = pipe_pc /\ stage' = stage + 1
    /\ UNCHANGED root
    /\ UNCHANGED rest_of_pipe

NextPipe ==
    \/ \E m \in Roots, q \in Queries : run_async(m, q)
    \/ \E t \in {"search_youtube", "search_arxiv", "google_search"}, q \in Queries :
          agent_tool_call(t, q)
    \/ \E g \in Generations : agent_generate(g)

SpecPipe == Init /\ [][NextPipe]_vars

\* ========================================================================
\* Properties of the response assembly (specification SpecAsm)
\* ========================================================================
\* the reference the properties compare the handlers with: events of the
\* documented shape {content: {parts: [{text: str}, ...]}}, every level optional
PartShaped(v) == IsDict(v) /\ Get(v, "text").t \in {"null", "str"}
PartsShaped(v) == v.t = "null" \/ (v.t = "list" /\ \A i \in 1..Len(v.l) : PartShaped(v.l[i]))
ContentShaped(v) == v.t = "null" \/ (IsDict(v) /\ PartsShaped(Get(v, "parts")))
EventShaped(v) == IsDict(v) /\ ContentShaped(Get(v, "content"))

\* a "data: " record that is not an event: it does not parse, or it parses to
\* a value of another shape
Unparsable(line) == startswith(line) /\ ~json_loads(line.payload).ok
Misshaped(line) == startswith(line) /\ json_loads(line.payload).ok
                      /\ ~EventShaped(line.payload.v)
Malformed(line) == Unparsable(line) \/ Misshaped(line)
IsEvent(line) == startswith(line) /\ json_loads(line.payload).ok
                    /\ EventShaped(line.payload.v)

RECURSIVE PartTexts(_)
\* the non-empty texts of a list of shaped parts, in order
PartTexts(parts) ==
    IF parts = <<>> THEN <<>>
    ELSE LET text == Get(Head(parts), "text") IN
         (IF text.t = "str" /\ text.s # <<>> THEN <<text.s>> ELSE <<>>)
            \o PartTexts(Tail(parts))

\* the non-empty text fragments of one shaped event
EventTexts(v) ==
    LET content == Get(v, "content") IN
    IF content.t = "null" THEN <<>>
    ELSE LET parts == Get(content, "parts") IN
         IF parts.t = "null" THEN <<>> ELSE PartTexts(parts.l)

RECURSIVE Fragments(_)
\* the non-empty text fragments of the events of a body, in arrival order
Fragments(lines) ==
    IF lines = <<>> THEN <<>>
    ELSE (IF IsEvent(Head(lines)) THEN EventTexts(Head(lines).payload.v) ELSE <<>>)
            \o Fragments(Tail(lines))

RECURSIVE Join(_)
\* the fragments with one paragraph break between neighbours
Join(frags) == IF frags = <<>> THEN <<>>
               ELSE IF Len(frags) = 1 THEN frags[1]
               ELSE frags[1] \o Brk \o Join(Tail(frags))

RECURSIVE Concat(_)
Concat(frags) == IF frags = <<>> THEN <<>> ELSE Head(frags) \o Concat(Tail(frags))

RECURSIVE Paragraphs(_)
\* the number of segments text.split("\n\n") yields
Paragraphs(text) ==
    IF Len(text) < 2 THEN 1
    ELSE IF SubSeq(text, 1, 2) = Brk THEN 1 + Paragraphs(SubSeq(text, 3, Len(text)))
    ELSE Paragraphs(Tail(text))

NotMalformed(line) == ~Malformed(line)
CarriesText(line) == IsEvent(line) /\ EventTexts(line.payload.v) # <<>>

\* a body without a record of a foreign shape: every "data: " record fails to
\* parse or is an event
Streaming(lines) == \A i \in 1..Len(lines) : ~Misshaped(lines[i])

\* a fragment with something to read in it and no line break
Plain(text) == /\ \E i \in 1..Len(text) : ~IsSpace(text[i])
               /\ \A i \in 1..Len(text) : text[i] # "\n"
PlainFragments(lines) == \A i \in 1..Len(Fragments(lines)) : Plain(Fragments(lines)[i])

\* a body some fragment of which holds a character that is not whitespace
Readable(lines) == strip(Join(Fragments(lines))) # <<>>

\* the single-aggregate form: the body is one JSON document without marker
Aggregate(lines) == /\ Len(lines) = 1
                    /\ ~startswith(lines[1])
                    /\ lines[1].payload.p = "json"

\* the text fragments of an aggregate document (one event or a list of
\* events), concatenated in document order
AggregateText(v) ==
    IF v.t = "list" THEN Concat([i \in 1..Len(v.l) |-> Concat(EventTexts(v.l[i]))])
    ELSE Concat(EventTexts(v))

\* C1: the reply of send_message and of guest_chat is never empty: when the
\* trimmed concatenation of the fragments is empty, whitespace-only fragments
\* included, the reply is the fixed fallback string.
C1_NeverEmpty ==
    /\ asm_send.exc = "none" =>
          /\ asm_send.text # <<>>
          /\ strip(Join(Fragments(asm_body))) = <<>> => asm_send.text = Fallback
    /\ asm_guest.exc = "none" =>
          /\ asm_guest.text # <<>>
          /\ strip(Join(Fragments(asm_body))) = <<>> => asm_guest.text = Fallback

C3_JoinedAsIs ==
    (asm_send.exc = "none" /\ Streaming(asm_body) /\ Readable(asm_body))
        => asm_send.text = Join(Fragments(asm_body))

\* C3 as amended: when the fragments are not all whitespace, the reply is the
\* non-empty fragments in arrival order with one paragraph break between
\* them, trimmed as a whole of leading and trailing whitespace.
C3_JoinedThenTrimmed ==
    (asm_send # NotRun /\ Streaming(asm_body) /\ Readable(asm_body))
        => asm_send = Ok(strip(Join(Fragments(asm_body))))

C3_Witness ==
    /\ asm_send = Ok(<<"a", "\n", "\n", "b">>)
    /\ Len(asm_body) = 2
    /\ Fragments(asm_body) = <<(<<"a">>), (<<"b">>)>>
    /\ \A i \in 1..2 : CarriesText(asm_body[i])

\* C4 as claimed: the reply has as many paragraphs as there are records that
\* carry a non-empty text fragment.
C4_ParagraphPerRecord ==
    (/\ asm_send.exc = "none"
     /\ Streaming(asm_body)
     /\ Fragments(asm_body) # <<>>
     /\ PlainFragments(asm_body))
        => Paragraphs(asm_send.text) = Len(SelectSeq(asm_body, CarriesText))

\* C4 as amended: the reply has as many paragraphs as there are non-empty
\* text fragments (parts), when every fragment is plain.
C4_ParagraphPerFragment ==
    (/\ asm_send # NotRun
     /\ Streaming(asm_body)
     /\ Fragments(asm_body) # <<>>
     /\ PlainFragments(asm_body))
        => /\ asm_send.exc = "none"
           /\ Paragraphs(asm_send.text) = Len(Fragments(asm_body))

C4_Witness ==
    /\ asm_send.exc = "none"
    /\ Len(SelectSeq(asm_body, CarriesText)) = 1
    /\ Len(Fragments(asm_body)) = 2
    /\ PlainFragments(asm_body)
    /\ Paragraphs(asm_send.text) = 2

\* C5: a malformed record never aborts the assembly: the parsing ends without
\* an exception and gives what it gives for the body without its malformed
\* records, in send_message and in guest_chat.
C5_MalformedSkipped ==
    /\ asm_send # NotRun =>
          /\ asm_send.exc = "none"
          /\ asm_send = SendAssemble(SelectSeq(asm_body, NotMalformed))
    /\ asm_guest # NotRun =>
          /\ asm_guest.exc = "none"
          /\ asm_guest = GuestAssemble(SelectSeq(asm_body, NotMalformed))

\* C6: a body in the single-aggregate form assembles to the concatenation of
\* its text fragments in document order, not to the fallback string.
C6_AggregateAssembled ==
    (asm_send # NotRun /\ Aggregate(asm_body))
        => asm_send = Ok(AggregateText(asm_body[1].payload.v))


\* ========================================================================
\* Properties of the handlers and the ADK runtime (specification Spec)
\* ========================================================================
\* the response of a session creation yields an identifier
GaveId(resp) == /\ resp.kind = "ok"
                /\ json_loads(resp.payload).ok
                /\ IsDict(resp.payload.v)
                /\ Truthy(Get(resp.payload.v, "id"))

\* the user identifier the caller has at the runtime
RemoteUser(q) == IF q.op = "guest" THEN "guest"
                 ELSE "user_" \o ToString(q.current_user.id)

\* the calls of one kind a request has made
CallsOf(r, call) == SelectSeq(reqs[r].calls, LAMBDA c : c.call = call)

Finished(r, op) == reqs[r].op = op /\ reqs[r].pc = "done"
Succeeded(r) == Finished(r, "send") /\ reqs[r].result.status = 200

\* the rows of chat_messages a request has inserted with a role
RowsOf(r, role) == SelectSeq(chat_messages, LAMBDA m : m.req = r /\ m.role = role)

\* the request has saved no reply and has not touched its session
NoReplySaved(r) ==
    /\ RowsOf(r, "assistant") = <<>>
    /\ \A i \in 1..Len(reqs[r].db) :
          reqs[r].db[i] \notin {"INSERT assistant", "UPDATE chat_sessions"}

\* C7: of two successful sends of one user in one chat session, the second
\* makes no session-creation call and sends its message with the remote
\* session identifier of the first.
C7_RemoteSessionReused ==
    \A r1, r2 \in Reqs :
        (/\ r1 < r2
         /\ Succeeded(r1) /\ Succeeded(r2)
         /\ reqs[r1].current_user.id = reqs[r2].current_user.id
         /\ reqs[r1].result.session_id = reqs[r2].result.session_id)
        => /\ CallsOf(r2, "create") = <<>>
           /\ CallsOf(r2, "run_sse")[1].session = CallsOf(r1, "run_sse")[1].session

\* C8: in send_message and guest_chat a message-send call follows a session
\* creation of the same request that returned a non-empty identifier, and it
\* carries 'study_planner', the caller's remote user identifier and exactly
\* that identifier.
C8_RunAfterCreate ==
    \A r \in Reqs :
        \A j \in 1..Len(reqs[r].calls) :
            LET run == reqs[r].calls[j] IN
            run.call = "run_sse" =>
                \E i \in 1..(j - 1) :
                    LET create == reqs[r].calls[i] IN
                    /\ create.call = "create"
                    /\ GaveId(create.resp)
                    /\ create.app = "study_planner"
                    /\ create.user = RemoteUser(reqs[r])
                    /\ run.app = "study_planner"
                    /\ run.user = RemoteUser(reqs[r])
                    /\ run.session = Get(create.resp.payload.v, "id")

C8_Witness ==
    \E r1, r2 \in Reqs :
        /\ reqs[r1].op = "send" /\ CallsOf(r1, "run_sse") # <<>>
        /\ reqs[r2].op = "guest" /\ CallsOf(r2, "run_sse") # <<>>

\* C9: when the session creation yields no identifier (error status,
\* transport failure, body without id, body that is no JSON object),
\* send_message ends with 502, sends no message and saves nothing but the
\* user message.
C9_CreateFailureIsGateway ==
    \A r \in Reqs :
        (/\ Finished(r, "send")
         /\ CallsOf(r, "create") # <<>>
         /\ ~GaveId(CallsOf(r, "create")[1].resp))
        => /\ reqs[r].result.status = 502
           /\ CallsOf(r, "run_sse") = <<>>
           /\ NoReplySaved(r)

\* the message-send call of the request ended in a failure of this kind
RunFailed(r, kind) ==
    /\ Finished(r, "send")
    /\ CallsOf(r, "run_sse") # <<>>
    /\ CallsOf(r, "run_sse")[1].resp.kind = kind

\* C10: a failed message send ends send_message with 502: an error status
\* with the 'ADK backend error' detail that carries the upstream body, a
\* connection failure with the 'Failed to connect' detail; the two details
\* differ; no reply is saved and the session is not touched.
C10_RunFailureIsGateway ==
    /\ \A r \in Reqs :
          RunFailed(r, "status") =>
              /\ reqs[r].result = HTTPException(502,
                    <<"ADK backend error: ", CallsOf(r, "run_sse")[1].resp.body>>)
              /\ NoReplySaved(r)
    /\ \A r \in Reqs :
          RunFailed(r, "transport") =>
              /\ reqs[r].result = HTTPException(502,
                    <<"Failed to connect to ADK backend: ", CallsOf(r, "run_sse")[1].resp.error>>)
              /\ NoReplySaved(r)
    /\ \A r1, r2 \in Reqs :
          (RunFailed(r1, "status") /\ RunFailed(r2, "transport"))
              => reqs[r1].result.detail[1] # reqs[r2].result.detail[1]

C10_Witness ==
    \E r1, r2 \in Reqs :
        /\ RunFailed(r1, "status") /\ RunFailed(r2, "transport")
        /\ RowsOf(r1, "user") # <<>> /\ RowsOf(r2, "user") # <<>>

\* a call to the runtime that failed: no 2xx answer, or a creation that
\* yields no identifier
CallFailed(c) ==
    \/ c.resp.kind \in {"status", "transport"}
    \/ c.call = "create" /\ ~GaveId(c.resp)

\* C11: no upstream call is retried: a request makes at most one
\* session-creation call and at most one message-send call, and a failed
\* call is the last call of its request.
C11_NoRetry ==
    \A r \in Reqs :
        /\ Len(CallsOf(r, "create")) <= 1
        /\ Len(CallsOf(r, "run_sse")) <= 1
        /\ \A i \in 1..Len(reqs[r].calls) :
              CallFailed(reqs[r].calls[i]) => i = Len(reqs[r].calls) /\ reqs[r].pc = "done"

C11_Witness ==
    \E r1, r2 \in Reqs :
        /\ reqs[r1].pc = "done" /\ Len(reqs[r1].calls) = 1 /\ CallFailed(reqs[r1].calls[1])
        /\ reqs[r2].pc = "done" /\ Len(reqs[r2].calls) = 2 /\ CallFailed(reqs[r2].calls[2])

\* the request was made by a user without a stored key
NoStoredKey(r) == reqs[r].op = "send" /\ reqs[r].current_user.encrypted_api_key = NULL

\* C12: send_message by a user without a stored key (never set, or removed
\* by delete_api_key) is rejected with 400; the request makes no call to the
\* runtime, creates no chat session and saves no message.
C12_KeyIsPrecondition ==
    \A r \in Reqs :
        NoStoredKey(r) =>
            /\ reqs[r].calls = <<>>
            /\ reqs[r].db = <<>>
            /\ RowsOf(r, "user") = <<>> /\ RowsOf(r, "assistant") = <<>>
            /\ reqs[r].pc = "done" =>
                  reqs[r].result = HTTPException(400,
                      <<"Please set your Google API key in settings first">>)

\* a send of a user succeeded, then the key was removed and the next send of
\* that user, which asks for a new session, was rejected
C12_Witness ==
    \E r1, r2 \in Reqs :
        /\ r1 < r2
        /\ Succeeded(r1)
        /\ reqs[r2].current_user.id = reqs[r1].current_user.id
        /\ NoStoredKey(r2) /\ reqs[r2].pc = "done" /\ reqs[r2].session_id = 0

\* the request has a call to the runtime under way: the creation from the
\* moment the key is put into the environment, the message send from the
\* moment the creation has answered
CallUnderWay(r) == reqs[r].pc \in {"create", "run"}

\* C13: while a request has a call to the runtime under way, the
\* process-wide GOOGLE_API_KEY is the key of that request's user, under
\* every interleaving of two sends by users with different keys.
C13_OwnCredential ==
    \A r \in Reqs : CallUnderWay(r) => environ = reqs[r].api_key

\* all rows of chat_messages a request has inserted, in insertion order
Appended(r) == SelectSeq(chat_messages, LAMBDA m : m.req = r)

\* C14: a successful send_message has appended exactly two messages to the
\* session it returns, first the user's message with role 'user', then the
\* reply with role 'assistant'; the returned text is the saved reply.
C14_UserThenAssistant ==
    \A r \in Reqs :
        Succeeded(r) =>
            /\ Len(Appended(r)) = 2
            /\ Appended(r)[1].role = "user"
            /\ Appended(r)[1].content = reqs[r].message
            /\ Appended(r)[2].role = "assistant"
            /\ Appended(r)[2].content = reqs[r].result.response
            /\ Appended(r)[1].session_id = reqs[r].result.session_id
            /\ Appended(r)[2].session_id = reqs[r].result.session_id
            /\ reqs[r].session_id = reqs[r].result.session_id

\* two sends on one session that overlapped and both succeeded
C14_Witness ==
    \E r1, r2 \in Reqs :
        /\ r1 # r2 /\ Succeeded(r1) /\ Succeeded(r2)
        /\ reqs[r1].result.session_id = reqs[r2].result.session_id
        /\ Len(chat_messages) = 4 /\ chat_messages[2].role = "user"
        /\ reqs[r1].result.response # Fallback

\* C15: get_messages returns the messages of a session in the order they
\* were appended (user message before its reply, earlier exchanges before
\* later ones), also when messages have the same created_at.
C15_AppendOrder ==
    listing.status = 200 =>
        \A i, j \in 1..Len(listing.rows) :
            i < j => listing.rows[i].id < listing.rows[j].id

\* ========================================================================
\* Properties of the pipeline (specification SpecPipe)
\* ========================================================================
\* the authors of the entries of the context after the user's
Authors == [i \in 1..(Len(context) - 1) |-> context[i + 1].author]

FixedOrder == <<"planner_agent", "researcher_agent", "academic_agent">>

\* C16: in every module's root_agent the stages run in the order
\* planner_agent, researcher_agent, academic_agent: the agent that runs is
\* the one after those whose entries are in the context, one at a time, none
\* skipped and none early.
C16_FixedOrder ==
    /\ pipe_pc # "idle" =>
          /\ context[1].author = "user"
          /\ Authors = SubSeq(FixedOrder, 1, Len(context) - 1)
    /\ pipe_pc = "running" => stage = Len(context) /\ agent = FixedOrder[Len(context)]
    /\ pipe_pc = "done" => Authors = FixedOrder

C16_Witness ==
    /\ pipe_pc = "done"
    /\ root = "study_planner/agent.py"
    /\ Len(context) = 4

\* C17: when a run of the pipeline has ended, its context has K+1 = 4
\* entries, one of the user and one of each stage, none empty, also when a
\* generation or a tool call of a stage has failed.
C17_AlwaysFourEntries ==
    pipe_pc \in {"done", "raised"} =>
        /\ Len(context) = Len(FixedOrder) + 1
        /\ \A i \in 2..Len(context) : context[i].text # <<>> /\ context[i].text # <<"">>

\* ========================================================================
\* Properties of the tools (specification SpecTools)
\* ========================================================================
\* the lookup of the invocation has failed: the query cannot be sent, the
\* transport or the status failed, the page or feed gave nothing to use
LookupFailed ==
    \/ ~tool_call.query.encodable
    \/ tool_call.lookup.kind # "ok"
    \/ /\ tool_call.tool = "search_youtube"
       /\ tool_call.lookup.matches = <<>> /\ tool_call.lookup.video_ids = <<>>
    \/ /\ tool_call.tool = "search_arxiv"
       /\ \/ tool_call.lookup.results = <<>>
          \/ tool_call.lookup.results[1].published = "None"

\* the result reads as a success: it begins with the header of a result list
ReadsAsSuccess == tool_result.text[1] \in {YoutubeHeader, ArxivHeader}

\* C18: an invocation of search_arxiv or search_youtube that has ended has
\* returned a non-empty string and raised nothing, whatever the query and
\* the outcome of the lookup, and the string reads as a success exactly when
\* the lookup succeeded.
C18_NeverRaises ==
    (tool_call # NoCall /\ tool_result # NotRun) =>
        /\ tool_result.exc = "none"
        /\ tool_result.text # <<>> /\ tool_result.text[1] # ""
        /\ ReadsAsSuccess <=> ~LookupFailed

\* ========================================================================
\* Further properties of the handlers (specification Spec)
\* ========================================================================
\* the request has received this body from run_sse and has ended
Assembled(r, lines) ==
    /\ reqs[r].pc = "done"
    /\ CallsOf(r, "run_sse") # <<>>
    /\ CallsOf(r, "run_sse")[1].resp.kind = "ok"
    /\ CallsOf(r, "run_sse")[1].resp.lines = lines

C20_GuestKeyNotKept ==
    \A r \in Reqs :
        (Finished(r, "guest") /\ InFlight = {}) => environ # reqs[r].api_key

\* ---- the chat store ----------------------------------------------------
\* the users whose account was deleted: AUTOINCREMENT (database.py:25) gives
\* an id once, so an id given and no longer in the table was deleted
DeletedUsers == {id \in 1..sqlite_sequence.users : \A u \in users : u.id # id}

\* the rows of chat_messages a request of user_id inserted: send_message
\* inserts only into a session it created for, or found owned by, its user
MessagesOfUser(user_id) ==
    {i \in 1..Len(chat_messages) : reqs[chat_messages[i].req].current_user.id = user_id}

\* C21: after a successful delete_account of user U no chat_sessions row has
\* user_id = U and no chat_messages row belongs to a session U owned
C21_AccountDataDeleted ==
    \A U \in DeletedUsers :
        /\ \A c \in chat_sessions : c.user_id # U
        /\ MessagesOfUser(U) = {}

\* the request given a session_id that names no session of its user, at the
\* ownership check, with the key that lets it reach the check
UnownedSession(r) ==
    /\ reqs[r].pc = "check"
    /\ reqs[r].current_user.encrypted_api_key # NULL
    /\ ~\E c \in chat_sessions :
          c.id = reqs[r].session_id /\ c.user_id = reqs[r].current_user.id

\* C22: a send_message whose session_id does not exist or belongs to another
\* user fails with 'Session not found' (404), leaves the chat store unchanged
\* and issues no remote call; and no message is appended to a session owned
\* by a different user
C22_OwnershipEnforced ==
    [][ /\ \A r \in Reqs :
             (UnownedSession(r) /\ reqs'[r].pc # "check") =>
                 /\ reqs'[r].pc = "done"
                 /\ reqs'[r].result = HTTPException(HTTP_404_NOT_FOUND,
                                                    <<"Session not found">>)
                 /\ reqs'[r].calls = <<>>
                 /\ UNCHANGED <<chat_sessions, chat_messages>>
        /\ Len(chat_messages') > Len(chat_messages) =>
             LET row == chat_messages'[Len(chat_messages')] IN
             \A c \in chat_sessions :
                 c.id = row.session_id => c.user_id = reqs[row.req].current_user.id
      ]_vars

\* user_id has an account and session_id names no session of that user
Unowned(user_id, session_id) ==
    /\ \E u \in users : u.id = user_id
    /\ ~\E c \in chat_sessions : c.id = session_id /\ c.user_id = user_id

\* the session ids a client can give: those of the sessions ever created,
\* and one that was never given
SessionIds == 0..(sqlite_sequence.chat_sessions + 1)

\* C22 (amended): a send_message of a user with a stored key whose session_id
\* is not 0 and names no session of the user fails with 'Session not found'
\* (404), changes no table and makes no remote call; get_messages and
\* delete_session with such a session_id (0 included) answer 404, return no
\* message and change no table; and no message is appended to a session
\* owned by a different user
C22_OwnershipEnforcedNonZero ==
    [][ /\ \A r \in Reqs :
             (UnownedSession(r) /\ reqs[r].session_id # 0 /\ reqs'[r].pc # "check") =>
                 /\ reqs'[r].pc = "done"
                 /\ reqs'[r].result = HTTPException(HTTP_404_NOT_FOUND,
                                                    <<"Session not found">>)
                 /\ reqs'[r].calls = <<>>
                 /\ UNCHANGED <<users, chat_sessions, chat_messages>>
        /\ \A user_id \in 1..sqlite_sequence.users, session_id \in SessionIds :
             (Unowned(user_id, session_id) /\
                 (get_messages(user_id, session_id) \/ delete_session(user_id, session_id))) =>
                 /\ listing' = [status |-> HTTP_404_NOT_FOUND, rows |-> <<>>]
                 /\ UNCHANGED <<users, chat_sessions, chat_messages>>
        /\ Len(chat_messages') > Len(chat_messages) =>
             LET row == chat_messages'[Len(chat_messages')] IN
             \A c \in chat_sessions :
                 c.id = row.session_id => c.user_id = reqs[row.req].current_user.id
      ]_vars

\* a send_message given the session of another user has been answered 404,
\* and a delete_session or get_messages has been answered 404 as well
C22_Witness ==
    /\ listing.status = HTTP_404_NOT_FOUND
    /\ \E r \in Reqs :
        /\ reqs[r].pc = "done"
        /\ reqs[r].result = HTTPException(HTTP_404_NOT_FOUND, <<"Session not found">>)
        /\ \E c \in chat_sessions :
              c.id = reqs[r].session_id /\ c.user_id # reqs[r].current_user.id

\* the sessions that were deleted: an id given and no longer in the table
DeletedSessions ==
    {id \in 1..sqlite_sequence.chat_sessions : \A c \in chat_sessions : c.id # id}

\* C26: after a successful delete_session of session S no chat_messages row
\* with session_id = S remains, a row inserted after the deletion by a request
\* that passed its ownership check before it included
C26_NoMessageOfDeletedSession ==
    \A i \in 1..Len(chat_messages) : chat_messages[i].session_id \notin DeletedSessions

\* ---- registration ------------------------------------------------------
\* email or username of request g is the email or username of a users row
Taken(g) ==
    \E u \in users : \/ u.email = regs[g].user_data.email
                      \/ u.username = regs[g].user_data.username

\* no two rows of table share an email or a username
UniqueUsers(table) ==
    \A u1, u2 \in table :
        u1 # u2 => u1.email # u2.email /\ u1.username # u2.username

\* C23: no two users rows share an email or a username, whatever the
\* interleaving of the register requests; a register request that ends while
\* its email or username is in the table adds no row and gets no token
C23_UniqueUnderConcurrency ==
    [][ /\ UniqueUsers(users')
        /\ \A g \in RegReqs :
             (regs[g].pc # "done" /\ regs'[g].pc = "done" /\ Taken(g)) =>
                 /\ users' = users
                 /\ regs'[g].status # HTTP_201_CREATED
                 /\ regs'[g].sub = 0
      ]_vars

\* two requests for one email both passed the checks of lines 21-38; one got
\* the row and the token, the other's INSERT was refused
C23_Witness ==
    \E g, h \in RegReqs :
        /\ regs[g].pc = "done" /\ regs[g].status = HTTP_201_CREATED
        /\ regs[h].pc = "done" /\ regs[h].status = HTTP_500_INTERNAL_SERVER_ERROR
        /\ regs[g].user_data.email = regs[h].user_data.email
        /\ Cardinality(users) = 1

\* ---- the two parsing loops ---------------------------------------------
\* C24: for every run_sse response body, the response text guest_chat returns
\* is the text send_message returns and saves for the same body (and where
\* one loop raises, the other raises the same exception)
C24_SameAssembly ==
    (asm_send # NotRun /\ asm_guest # NotRun) => asm_guest = asm_send

\* both handlers have parsed a body with text that strip() shortens
C24_Witness ==
    /\ asm_send # NotRun /\ asm_guest # NotRun
    /\ asm_send.exc = "none"
    /\ asm_send.text # Fallback
    /\ asm_send.text # SendLines(asm_body, <<>>).text

\* ---- the messages of a session, sends serialized -----------------------
\* the rows of a session in insertion order
Thread(session_id) == SelectSeq(chat_messages, LAMBDA m : m.session_id = session_id)

\* the number of rows of a thread with a role
Count(thread, role) == Len(SelectSeq(thread, LAMBDA m : m.role = role))

\* the send failed after its session was found or created: the key did not
\* decrypt or the exchange with the runtime failed
FailedAfterSave(r) ==
    /\ Finished(r, "send")
    /\ reqs[r].result.status \in {HTTP_500_INTERNAL_SERVER_ERROR, HTTP_502_BAD_GATEWAY}

\* C25: with the sends serialized, every assistant message of a session comes
\* right after the user message of the same request, a session never has more
\* assistant than user messages, and a failed request leaves its user message
\* without a reply
C25_ReplyFollowsItsMessage ==
    /\ \A session_id \in 1..sqlite_sequence.chat_sessions :
        LET thread == Thread(session_id) IN
        /\ \A i \in 1..Len(thread) :
              thread[i].role = "assistant" =>
                  /\ i > 1
                  /\ thread[i - 1].role = "user"
                  /\ thread[i - 1].req = thread[i].req
        /\ Count(thread, "assistant") <= Count(thread, "user")
    /\ \A r \in Reqs :
          FailedAfterSave(r) =>
              /\ Len(RowsOf(r, "user")) = 1
              /\ RowsOf(r, "user")[1].session_id = reqs[r].session_id
              /\ RowsOf(r, "assistant") = <<>>

\* a session holds the message and reply of a successful send and the
\* unanswered message of a failed one
C25_Witness ==
    \E r1, r2 \in Reqs :
        /\ Succeeded(r1) /\ FailedAfterSave(r2)
        /\ reqs[r1].session_id = reqs[r2].session_id
        /\ Len(Thread(reqs[r1].session_id)) = 3
        /\ Count(Thread(reqs[r1].session_id), "assistant") = 1

====
